---- MODULE Spec2Model ----
(***************************************************************************)
(* A model of sha1sum.cc: the command-line driver (main), the byte         *)
(* collector (GetInput), the padder (PadInput), the compressor (sha1,      *)
(* computeHash, hashRound) and the digest emitter (hashSource).            *)
(*                                                                         *)
(* A uint32_t is modelled as a pair <<hi, lo>> of 16-bit halves, so that   *)
(* every intermediate value stays inside the model checker's integers      *)
(* while all arithmetic remains exactly arithmetic modulo 2^32.            *)
(***************************************************************************)
EXTENDS Integers, Sequences, FiniteSets, TLC

(***************************************************************************)
(* Bounds of the model.                                                    *)
(***************************************************************************)
\* standard input holds 0..MaxLen bytes
MaxLen == 66
\* at most MaxArgs path arguments on the command line
MaxArgs == 2

(***************************************************************************)
(* Program constants.                                                      *)
(***************************************************************************)
blockBits == 512
int32Size == 4
int32Bits == 32
intsPerBlock == blockBits \div int32Bits
\* number of rounds of one compression (the loop bound of computeHash)
numRounds == 80
\* the end-of-message marker byte of PadInput
marker == 128

(***************************************************************************)
(* uint32_t arithmetic on <<hi, lo>>.                                      *)
(***************************************************************************)
RECURSIVE Pow2(_)
Pow2(n) == IF n = 0 THEN 1 ELSE 2 * Pow2(n - 1)

\* the number of values of half a uint32_t
Half == Pow2(int32Bits \div 2)

Word == (0 .. Half - 1) \X (0 .. Half - 1)

\* the uint32_t holding the small natural n (n < 2^31)
ToWord(n) == << (n \div Half) % Half, n % Half >>

RECURSIVE BitAnd(_, _)
BitAnd(x, y) ==
  IF x = 0 \/ y = 0 THEN 0
  ELSE (x % 2) * (y % 2) + 2 * BitAnd(x \div 2, y \div 2)

RECURSIVE BitXor(_, _)
BitXor(x, y) ==
  IF x = 0 THEN y
  ELSE IF y = 0 THEN x
  ELSE (((x % 2) + (y % 2)) % 2) + 2 * BitXor(x \div 2, y \div 2)

RECURSIVE BitOr(_, _)
BitOr(x, y) ==
  IF x = 0 THEN y
  ELSE IF y = 0 THEN x
  ELSE (IF (x % 2) + (y % 2) > 0 THEN 1 ELSE 0) + 2 * BitOr(x \div 2, y \div 2)

And32(x, y) == << BitAnd(x[1], y[1]), BitAnd(x[2], y[2]) >>
Xor32(x, y) == << BitXor(x[1], y[1]), BitXor(x[2], y[2]) >>
Or32(x, y) == << BitOr(x[1], y[1]), BitOr(x[2], y[2]) >>
Not32(x) == << Half - 1 - x[1], Half - 1 - x[2] >>

\* uint32_t addition wraps modulo 2^32
Add32(x, y) ==
  LET lo == x[2] + y[2]
      hi == x[1] + y[1] + (lo \div Half)
  IN  << hi % Half, lo % Half >>

\* x << n on uint32_t, 0 <= n < 32: the bits shifted out are lost
Shl32(x, n) ==
  IF n >= 16
    THEN << (x[2] % Pow2(32 - n)) * Pow2(n - 16), 0 >>
    ELSE << (x[1] % Pow2(16 - n)) * Pow2(n) + (x[2] \div Pow2(16 - n)),
            (x[2] % Pow2(16 - n)) * Pow2(n) >>

\* x >> n on uint32_t, 0 <= n < 32
Shr32(x, n) ==
  IF n >= 16
    THEN << 0, x[1] \div Pow2(n - 16) >>
    ELSE << x[1] \div Pow2(n),
            (x[1] % Pow2(n)) * Pow2(16 - n) + (x[2] \div Pow2(n)) >>

rotl(x, n) ==
  LET rshift == int32Bits - n
  IN  Or32(Shl32(x, n), Shr32(x, rshift))

accumulateUint(left, right) == Or32(Shl32(left, 8), << 0, right >>)

(***************************************************************************)
(* The round function table and the round constants.                       *)
(***************************************************************************)
\* the three lambdas of roundFunctions, by table position; `garbage' is
\* what a read outside the table yields
roundFunctions(index, x, y, z, garbage) ==
  CASE index = 0 -> Xor32(And32(x, y), And32(Not32(x), z))
    [] index = 1 -> Xor32(Xor32(x, y), z)
    [] index = 2 -> Xor32(Xor32(And32(x, y), And32(x, z)), And32(y, z))
    [] OTHER -> garbage

\* a variant that applies one divisor to every round, as for the constants
functionIndexForRound_NoWrap(round) == round \div 20

\* the subscript getFunctionForRound applies to roundFunctions
functionIndexForRound(round) ==
  (IF round > 59 THEN round - 40 ELSE round) \div 20

getFunctionForRound(round, x, y, z, garbage) ==
  roundFunctions(functionIndexForRound(round), x, y, z, garbage)

constants ==
  << << 23170, 31129 >>,    \* 0x5a827999
     << 28377, 60321 >>,    \* 0x6ed9eba1
     << 36635, 48348 >>,    \* 0x8f1bbcdc
     << 51810, 49622 >> >>  \* 0xca62c1d6

\* the subscript getConstantForRound applies to constants
constantIndexForRound(round) == round \div 20

getConstantForRound(round, garbage) ==
  LET k == constantIndexForRound(round)
  IN  IF k + 1 \in DOMAIN constants THEN constants[k + 1] ELSE garbage

(***************************************************************************)
(* hashRound.                                                              *)
(***************************************************************************)
Reverse(s) == [k \in 1 .. Len(s) |-> s[Len(s) + 1 - k]]

\* std::rotate(first, first + n, last): the element at offset n becomes the
\* first one
StdRotate(s, n) == SubSeq(s, n + 1, Len(s)) \o SubSeq(s, 1, n)

\* a variant that rotates through the forward iterators
RotateReverse_Forward(vars) == StdRotate(vars, 1)

\* std::rotate(vars.rbegin(), vars.rbegin() + 1, vars.rend()): a rotation
\* of the vector as the reverse iterators see it
RotateReverse(vars) == Reverse(StdRotate(Reverse(vars), 1))

\* roundVars.W[round], the vector being 0-indexed
ScheduleWord(w, round, garbage) ==
  IF round + 1 \in DOMAIN w THEN w[round + 1] ELSE garbage

\* the new workingVars after hashRound(roundVars, round)
hashRound(vars, w, round, garbage) ==
  LET a == 1
      b == 2
      c == 3
      d == 4
      e == 5
      T == Add32(Add32(Add32(Add32(rotl(vars[a], 5),
                 getFunctionForRound(round, vars[b], vars[c], vars[d], garbage)),
                 vars[e]), getConstantForRound(round, garbage)),
                 ScheduleWord(w, round, garbage))
      rotated == RotateReverse(vars)
      withC == [rotated EXCEPT ![c] = rotl(rotated[c], 30)]
  IN  [withC EXCEPT ![a] = T]

(***************************************************************************)
(* computeHash: the message schedule and the state fold.                   *)
(***************************************************************************)
\* the loop `for (auto i = 16; i < 80; i++) w.emplace_back(...)'
RECURSIVE ExpandSchedule(_)
ExpandSchedule(w) ==
  IF Len(w) >= numRounds THEN w
  ELSE LET i == Len(w)   \* 0-based index of the word being appended
       IN  ExpandSchedule(Append(w,
             rotl(Xor32(Xor32(Xor32(w[i - 3 + 1], w[i - 8 + 1]),
                              w[i - 14 + 1]), w[i - 16 + 1]), 1)))

\* std::transform(newHash, previousHash, std::plus<uint32_t>())
FoldHash(newHash, previousHash) ==
  [k \in 1 .. Len(newHash) |->
     IF k \in DOMAIN previousHash THEN Add32(newHash[k], previousHash[k])
     ELSE newHash[k]]

\* the initial value of `hashes' in sha1
InitialHash ==
  << << 26437, 8961 >>,     \* 0x67452301
     << 61389, 43913 >>,    \* 0xefcdab89
     << 39098, 56574 >>,    \* 0x98badcfe
     << 4146, 21622 >>,     \* 0x10325476
     << 50130, 57840 >> >>  \* 0xc3d2e1f0

(***************************************************************************)
(* PadInput.                                                               *)
(***************************************************************************)
\* a variant that does not count the marker byte among the bytes placed
MarkerShift_OffByOne(byteCount) ==
  (int32Size - (byteCount % int32Size)) * 8

\* the left shift that puts a partial last word in place
MarkerShift(byteCount) ==
  (int32Size - (byteCount % int32Size) - 1) * 8

\* a variant whose word-aligned branch puts the marker in the low byte
AddMarker_LowByte(v, byteCount, garbage) ==
  IF (byteCount % int32Size) # 0
    THEN IF Len(v) = 0
           THEN << garbage >>
           ELSE [v EXCEPT ![Len(v)] =
                  Shl32(accumulateUint(v[Len(v)], marker), MarkerShift(byteCount))]
    ELSE Append(v, << 0, marker >>)

\* "Add the end-of-message marker"
AddMarker(v, byteCount, garbage) ==
  IF (byteCount % int32Size) # 0
    THEN IF Len(v) = 0
           THEN << garbage >>      \* back() of an empty vector
           ELSE [v EXCEPT ![Len(v)] =
                  Shl32(accumulateUint(v[Len(v)], marker), MarkerShift(byteCount))]
    ELSE Append(v, << 32768, 0 >>)  \* 0x80000000

\* a variant that reserves no room for the two trailer words
paddingRequired_NoTrailer(size) == intsPerBlock - (size % intsPerBlock)

paddingRequired(size) == intsPerBlock - ((size + 2) % intsPerBlock)

\* the two words of the bit count, most significant first; byteCount is a
\* uint64_t and stays far below 2^28 here
LengthTrailer(byteCount) ==
  LET bits == byteCount * 8
      messageLenLSB == ToWord(bits)
      messageLenMSB == ToWord((bits \div Half) \div Half)
  IN  << messageLenMSB, messageLenLSB >>

PadInput(v, byteCount, garbage) ==
  LET marked == AddMarker(v, byteCount, garbage)
      zeros == [k \in 1 .. paddingRequired(Len(marked)) |-> << 0, 0 >>]
  IN  marked \o zeros \o LengthTrailer(byteCount)

(***************************************************************************)
(* hashSource: the hexadecimal rendering.                                  *)
(***************************************************************************)
HexDigits ==
  << "0", "1", "2", "3", "4", "5", "6", "7",
     "8", "9", "a", "b", "c", "d", "e", "f" >>

\* a natural below 2^16 in hexadecimal, no leading zeros
RECURSIVE HexOf(_)
HexOf(n) ==
  IF n < 16 THEN HexDigits[n + 1]
  ELSE HexOf(n \div 16) \o HexDigits[(n % 16) + 1]

RECURSIVE FillTo(_, _, _)
FillTo(s, width, fill) ==
  IF Len(s) >= width THEN s ELSE FillTo(fill \o s, width, fill)

\* operator<<(uint32_t) under std::hex: the digits of the value, then
\* filled on the left up to the stream's field width
InsertHex(x, width, fill) ==
  FillTo(IF x[1] = 0 THEN HexOf(x[2])
         ELSE HexOf(x[1]) \o FillTo(HexOf(x[2]), 4, "0"),
         width, fill)

\* `cout << hex << setfill('0') << setw(int32Size); for (i : hashed) cout << i':
\* the field width is reset to 0 by every insertion, so it reaches only the
\* first word
RECURSIVE InsertWords(_, _, _)
InsertWords(hashed, k, width) ==
  IF k > Len(hashed) THEN ""
  ELSE InsertHex(hashed[k], width, "0") \o InsertWords(hashed, k + 1, 0)

PrintHash(hashed) == InsertWords(hashed, 1, int32Size)

(***************************************************************************)
(* The environment: the command line, the files and standard input.        *)
(***************************************************************************)
ProgName == "sha1sum"

\* the files the path arguments can name; "missing" cannot be opened
FileSystem ==
  [ a       |-> [opens |-> TRUE,  bytes |-> << 97, 98, 99 >>],   \* "abc"
    b       |-> [opens |-> TRUE,  bytes |-> << 97, 98 >>],       \* "ab"
    empty   |-> [opens |-> TRUE,  bytes |-> << >>],
    missing |-> [opens |-> FALSE, bytes |-> << >>] ]

Paths == DOMAIN FileSystem

\* the byte sequences standard input can hold: every length up to MaxLen,
\* in two byte patterns that mix values below and above 0x80
Patterns == {0, 1}

StdinByte(k, p) == (k * (37 + 64 * p) + 11 + 150 * p) % 256

StdinContents ==
  { [k \in 1 .. n |-> StdinByte(k, p)] : n \in 0 .. MaxLen, p \in Patterns }

ArgLists == UNION { [1 .. n -> Paths] : n \in 0 .. MaxArgs }

\* what a read outside a vector may yield
Garbage == { << 0, 0 >>, << Half - 1, Half - 1 >> }

(***************************************************************************)
(* The state of the program.                                               *)
(***************************************************************************)
VARIABLES
  argv,         \* the path arguments argv[1 .. argc - 1]
  stdin,        \* the bytes on standard input
  pc,           \* the position of the program
  i,            \* main: the loop index
  exitCode,     \* main: exitCode
  status,       \* << >> while the process runs, << its exit status >> after
  source,       \* hashSource: the label of the source being hashed
  inbuf,        \* the bytes not yet read from the open stream
  count,        \* GetInput: count
  next,         \* GetInput: next
  v,            \* GetInput: v
  padded,       \* the vector PadInput returned
  it,           \* sha1: the offset of the iterator `it' in the vector
  hashes,       \* sha1: hashes
  workingVars,  \* computeHash: roundVars.workingVars
  W,            \* computeHash: roundVars.W
  round,        \* computeHash: the index of the round loop
  stdout,       \* the lines written to standard output
  stderr        \* the lines written to standard error

vars ==
  << argv, stdin, pc, i, exitCode, status, source, inbuf, count, next, v,
     padded, it, hashes, workingVars, W, round, stdout, stderr >>

env == << argv, stdin >>
mainVars == << i, exitCode, status >>
inputVars == << count, next, v >>
hashVars == << padded, it, hashes, workingVars, W, round >>
outVars == << stdout, stderr >>

argc == Len(argv) + 1

Init ==
  /\ argv \in ArgLists
  /\ stdin \in (IF argv = << >> THEN StdinContents ELSE { << >> })
  /\ pc = "main"
  /\ i = 1
  /\ exitCode = 0
  /\ status = << >>
  /\ source = ""
  /\ inbuf = << >>
  /\ count = 0
  /\ next = << 0, 0 >>
  /\ v = << >>
  /\ padded = << >>
  /\ it = 0
  /\ hashes = << >>
  /\ workingVars = << >>
  /\ W = << >>
  /\ round = 0
  /\ stdout = << >>
  /\ stderr = << >>

(***************************************************************************)
(* main.                                                                   *)
(***************************************************************************)
\* `if (argc == 1) hashSource(std::cin, "-")': the call
MainStdin ==
  /\ pc = "main"
  /\ argc = 1
  /\ source' = "-"
  /\ inbuf' = stdin
  /\ pc' = "GetInput"
  /\ UNCHANGED << env, mainVars, inputVars, hashVars, outVars >>

\* a variant that reports the failure and does not record it
MainOpenFail_NotRecorded ==
  /\ pc = "main"
  /\ argc > 1
  /\ i < argc
  /\ ~ FileSystem[argv[i]].opens
  /\ stderr' = Append(stderr,
       << ProgName, ": ", argv[i], ": no such file or directory" >>)
  /\ i' = i + 1
  /\ UNCHANGED << env, pc, exitCode, status, source, inbuf, inputVars, hashVars,
                  stdout >>

\* a variant that leaves the loop at the first failure
MainOpenFail_Break ==
  /\ pc = "main"
  /\ argc > 1
  /\ i < argc
  /\ ~ FileSystem[argv[i]].opens
  /\ stderr' = Append(stderr,
       << ProgName, ": ", argv[i], ": no such file or directory" >>)
  /\ exitCode' = 1
  /\ i' = argc
  /\ UNCHANGED << env, pc, status, source, inbuf, inputVars, hashVars, stdout >>

\* one iteration of the loop whose ifstream fails to open
MainOpenFail ==
  /\ pc = "main"
  /\ argc > 1
  /\ i < argc
  /\ ~ FileSystem[argv[i]].opens
  /\ stderr' = Append(stderr,
       << ProgName, ": ", argv[i], ": no such file or directory" >>)
  /\ exitCode' = 1
  /\ i' = i + 1
  /\ UNCHANGED << env, pc, status, source, inbuf, inputVars, hashVars, stdout >>

\* one iteration of the loop whose ifstream opens: the call of hashSource
MainOpen ==
  /\ pc = "main"
  /\ argc > 1
  /\ i < argc
  /\ FileSystem[argv[i]].opens
  /\ source' = argv[i]
  /\ inbuf' = FileSystem[argv[i]].bytes
  /\ pc' = "GetInput"
  /\ UNCHANGED << env, mainVars, inputVars, hashVars, outVars >>

\* `return exitCode' after the loop
MainReturn ==
  /\ pc = "main"
  /\ argc > 1
  /\ i >= argc
  /\ status' = << exitCode >>
  /\ pc' = "exit"
  /\ UNCHANGED << env, i, exitCode, source, inbuf, inputVars, hashVars, outVars >>

(***************************************************************************)
(* GetInput.                                                               *)
(***************************************************************************)
\* one iteration of `while ((c = in.get()) != EOF)'
GetInputByte ==
  /\ pc = "GetInput"
  /\ inbuf # << >>
  /\ LET charInput == Head(inbuf)
         acc == accumulateUint(next, charInput)
     IN  /\ count' = count + 1
         /\ IF ((count + 1) % int32Size) = 0
              THEN v' = Append(v, acc) /\ next' = << 0, 0 >>
              ELSE v' = v /\ next' = acc
  /\ inbuf' = Tail(inbuf)
  /\ UNCHANGED << env, pc, mainVars, source, hashVars, outVars >>

\* the end of the stream: the partial word, and the return
GetInputEOF ==
  /\ pc = "GetInput"
  /\ inbuf = << >>
  /\ v' = IF count > 0 /\ (count % int32Size) # 0 THEN Append(v, next) ELSE v
  /\ pc' = "PadInput"
  /\ UNCHANGED << env, mainVars, source, inbuf, count, next, hashVars, outVars >>

(***************************************************************************)
(* PadInput and sha1.                                                      *)
(***************************************************************************)
\* PadInput(GetInput(in)), and the entry of sha1
CallPadInput ==
  /\ pc = "PadInput"
  /\ \E g \in Garbage : padded' = PadInput(v, count, g)
  /\ hashes' = InitialHash
  /\ it' = 0
  /\ pc' = "sha1"
  /\ UNCHANGED << env, mainVars, source, inbuf, inputVars, workingVars, W,
                  round, outVars >>

\* sha1's loop enters computeHash(hashes, it, it + intsPerBlock): the copy
\* of the block, the message schedule and the RoundVariables
ComputeHashBegin ==
  /\ pc = "sha1"
  /\ it < Len(padded)
  /\ \E g \in Garbage :
       W' = ExpandSchedule(
              [k \in 1 .. intsPerBlock |->
                 IF it + k \in DOMAIN padded THEN padded[it + k] ELSE g])
  /\ workingVars' = hashes
  /\ round' = 0
  /\ pc' = "hashRound"
  /\ UNCHANGED << env, mainVars, source, inbuf, inputVars, padded, it, hashes,
                  outVars >>

\* one iteration of `for (auto i = 0; i < 80; i++) hashRound(roundVars, i)'
HashRoundStep ==
  /\ pc = "hashRound"
  /\ round < numRounds
  /\ \E g \in Garbage : workingVars' = hashRound(workingVars, W, round, g)
  /\ round' = round + 1
  /\ UNCHANGED << env, pc, mainVars, source, inbuf, inputVars, padded, it,
                  hashes, W, outVars >>

\* the fold into the previous hash, the return, and `it += intsPerBlock'
ComputeHashEnd ==
  /\ pc = "hashRound"
  /\ round >= numRounds
  /\ hashes' = FoldHash(workingVars, hashes)
  /\ it' = it + intsPerBlock
  /\ workingVars' = << >>
  /\ W' = << >>
  /\ round' = 0
  /\ pc' = "sha1"
  /\ UNCHANGED << env, mainVars, source, inbuf, inputVars, padded, outVars >>

\* the loop of sha1 ends: `return hashes'
Sha1Return ==
  /\ pc = "sha1"
  /\ it >= Len(padded)
  /\ pc' = "print"
  /\ UNCHANGED << env, mainVars, source, inbuf, inputVars, hashVars, outVars >>

(***************************************************************************)
(* hashSource: the output line, and the return to main.                    *)
(***************************************************************************)
HashSourcePrint ==
  /\ pc = "print"
  /\ stdout' = Append(stdout, << PrintHash(hashes), "  ", source >>)
  /\ IF argc = 1
       THEN status' = << 0 >> /\ pc' = "exit" /\ i' = i       \* `return 0'
       ELSE status' = status /\ pc' = "main" /\ i' = i + 1
  /\ source' = ""
  /\ count' = 0
  /\ next' = << 0, 0 >>
  /\ v' = << >>
  /\ padded' = << >>
  /\ it' = 0
  /\ hashes' = << >>
  /\ UNCHANGED << env, exitCode, inbuf, workingVars, W, round, stderr >>

Next ==
  \/ MainStdin
  \/ MainOpenFail
  \/ MainOpen
  \/ MainReturn
  \/ GetInputByte
  \/ GetInputEOF
  \/ CallPadInput
  \/ ComputeHashBegin
  \/ HashRoundStep
  \/ ComputeHashEnd
  \/ Sha1Return
  \/ HashSourcePrint

Spec == Init /\ [][Next]_vars

(***************************************************************************)
(* A reference SHA-1 (FIPS 180), written on bytes and on named working     *)
(* variables, independently of the program's vectors and iterators.        *)
(***************************************************************************)
\* the bytes of the source that hashSource is working on
Content == IF source = "-" THEN stdin ELSE FileSystem[source].bytes

\* rotate-left: the bits that leave at the top come back at the bottom
RefRotl(x, n) ==
  LET y == IF n >= 16 THEN << x[2], x[1] >> ELSE x
      m == n % 16
      keep == Pow2(16 - m)
  IN  << (y[1] % keep) * Pow2(m) + (y[2] \div keep),
         (y[2] % keep) * Pow2(m) + (y[1] \div keep) >>

\* the round table: the function of rounds 0-19, 20-39, 40-59, 60-79
RefF(r, x, y, z) ==
  IF r <= 19 THEN Xor32(And32(x, y), And32(Not32(x), z))
  ELSE IF r <= 39 THEN Xor32(x, Xor32(y, z))
  ELSE IF r <= 59 THEN Xor32(And32(x, y), Xor32(And32(x, z), And32(y, z)))
  ELSE Xor32(x, Xor32(y, z))

\* the round table: 0x5A827999, 0x6ED9EBA1, 0x8F1BBCDC, 0xCA62C1D6
RefK(r) ==
  IF r <= 19 THEN << 23170, 31129 >>
  ELSE IF r <= 39 THEN << 28377, 60321 >>
  ELSE IF r <= 59 THEN << 36635, 48348 >>
  ELSE << 51810, 49622 >>

\* T = rotateLeft(a,5) + f_r(b,c,d) + e + K_r + schedule[r]
RefT(st, r, wr) ==
  Add32(RefRotl(st[1], 5),
        Add32(RefF(r, st[2], st[3], st[4]),
              Add32(st[5], Add32(RefK(r), wr))))

\* (a,b,c,d,e) <- (T, a, rotateLeft(b,30), c, d)
RefRound(st, r, wr) == << RefT(st, r, wr), st[1], RefRotl(st[2], 30), st[3], st[4] >>

\* the message with the bit 1, the fewest zero bits that leave the length
\* congruent to 448 mod 512, and the 64-bit bit count
RefPadBytes(m) ==
  LET n == Len(m)
      k == (119 - (n % 64)) % 64
      bits == 8 * n
  IN  m \o << 128 >> \o [j \in 1 .. k |-> 0]
        \o << 0, 0, 0, 0, (bits \div 16777216) % 256, (bits \div 65536) % 256,
              (bits \div 256) % 256, bits % 256 >>

\* the big-endian word at 0-based word position j of a byte sequence
RefWordAt(bytes, j) ==
  << bytes[4 * j + 1] * 256 + bytes[4 * j + 2],
     bytes[4 * j + 3] * 256 + bytes[4 * j + 4] >>

RECURSIVE RefSchedule(_)
RefSchedule(w) ==
  IF Len(w) = 80 THEN w
  ELSE LET t == Len(w) + 1
       IN  RefSchedule(w \o << RefRotl(Xor32(w[t - 3],
             Xor32(w[t - 8], Xor32(w[t - 14], w[t - 16]))), 1) >>)

RECURSIVE RefRounds(_, _, _)
RefRounds(st, w, r) ==
  IF r = 80 \/ Len(st) # 5 THEN st
  ELSE RefRounds(RefRound(st, r, w[r + 1]), w, r + 1)

RefCompress(h, bytes, blk) ==
  LET w == RefSchedule([j \in 1 .. 16 |-> RefWordAt(bytes, 16 * blk + j - 1)])
      st == RefRounds(h, w, 0)
  IN  [j \in 1 .. 5 |-> Add32(h[j], st[j])]

RECURSIVE RefBlocks(_, _, _)
RefBlocks(h, bytes, blk) ==
  IF 64 * blk >= Len(bytes) \/ Len(h) # 5 THEN h
  ELSE RefBlocks(RefCompress(h, bytes, blk), bytes, blk + 1)

RefSha1(m) ==
  RefBlocks(<< << 26437, 8961 >>, << 61389, 43913 >>, << 39098, 56574 >>,
               << 4146, 21622 >>, << 50130, 57840 >> >>,
            RefPadBytes(m), 0)

\* the positions at which the vector PadInput returned is live
Padded == pc \in {"sha1", "hashRound", "print"}

(***************************************************************************)
(* The claims.                                                             *)
(***************************************************************************)
BoundaryLengths == {0, 1, 3, 4, 55, 56, 63, 64, 65}

\* C1: for every input of 0, 1, 3, 4, 55, 56, 63, 64 or 65 bytes, the digest
\* state that sha1(PadInput(GetInput(input))) returns is the SHA-1 digest of
\* the input as the reference computes it.
C1_DigestMatchesReference ==
  (pc = "print" /\ Len(Content) \in BoundaryLengths) => hashes = RefSha1(Content)

\* the number of words in the vector once the marker is placed
MarkedSize == IF (count % int32Size) = 0 THEN Len(v) + 1 ELSE Len(v)

\* C2: PadInput appends the smallest k >= 0 of zero words with
\* (wordCount + k + 2) mod 16 = 0, so the padded sequence has exactly
\* 16 * ceil((8n + 1 + 64) / 512) words.
C2_MinimalPadding ==
  Padded =>
    LET k == Len(padded) - 2 - MarkedSize
    IN  /\ k \in 0 .. 15
        /\ (MarkedSize + k + 2) % 16 = 0
        /\ Len(padded) = 16 * ((8 * count + 65 + 511) \div 512)

\* C3: the sequence PadInput returns has a length that is a positive
\* multiple of 16 words, it is 448 bits mod 512 long before the two trailer
\* words, and the block loop of sha1 reads whole 16-word blocks inside it.
C3_WholeBlocks ==
  Padded =>
    /\ Len(padded) > 0
    /\ Len(padded) % 16 = 0
    /\ ((Len(padded) - 2) * 32) % 512 = 448
    /\ it % 16 = 0
    /\ it <= Len(padded)
    /\ pc = "hashRound" =>
         /\ it + 16 <= Len(padded)
         /\ SubSeq(W, 1, 16) = SubSeq(padded, it + 1, it + 16)

\* a second block of an input that is not a whole number of words is being
\* compressed
C3_Witness ==
  pc = "hashRound" /\ it = 16 /\ count % 4 = 1 /\ round = 80

\* the bytes behind the label of an output line
BytesOf(label) == IF label = "-" THEN stdin ELSE FileSystem[label].bytes

\* C4: hashSource prints exactly 40 hexadecimal characters before the
\* two-space separator, 8 zero-padded digits for each of the 5 words.
C4_FortyHexChars ==
  \A n \in DOMAIN stdout : Len(stdout[n][1]) = 40 /\ stdout[n][2] = "  "

\* C5: hashing the empty byte sequence yields no words and count 0, one block
\* after padding, one compression, and prints
\* da39a3ee5e6b4b0d3255bfef95601890afd80709.
C5_EmptyDigest ==
  /\ (pc = "print" /\ Content = << >>) =>
       /\ count = 0
       /\ v = << >>
       /\ Len(padded) = intsPerBlock
       /\ it = intsPerBlock
  /\ \A n \in DOMAIN stdout :
       BytesOf(stdout[n][3]) = << >> =>
         stdout[n][1] = "da39a3ee5e6b4b0d3255bfef95601890afd80709"

\* the digest line of an empty source has been printed, from standard input
\* or from an empty file
C5_Witness ==
  /\ stdout # << >>
  /\ BytesOf(stdout[Len(stdout)][3]) = << >>
  /\ pc \in {"main", "exit"}

Opens(path) == FileSystem[path].opens
Fails(path) == ~ FileSystem[path].opens

\* the arguments whose iteration of main's loop has finished
Processed == SubSeq(argv, 1, i - 1)

\* C6: the exit status is 0 if no argument was given or every argument
\* opened, and 1 if at least one failed to open; it is decided after all
\* arguments are processed, and a recorded failure is never cleared.
C6_ExitStatus ==
  /\ exitCode = IF \E k \in DOMAIN Processed : Fails(Processed[k]) THEN 1 ELSE 0
  /\ status # << >> =>
       /\ pc = "exit"
       /\ argv # << >> => Processed = argv
       /\ status = << IF \E k \in DOMAIN argv : Fails(argv[k]) THEN 1 ELSE 0 >>

\* the process has exited with 1 after a failure that a success followed
C6_Witness ==
  /\ status = << 1 >>
  /\ Len(argv) >= 2
  /\ Fails(argv[1])
  /\ Opens(argv[Len(argv)])

Label(line) == line[3]
Labels(lines) == [n \in DOMAIN lines |-> Label(lines[n])]

\* C7: the arguments are processed in order and each produces exactly one
\* event: a digest line labelled with its path if it opens, an error line
\* and no digest line if it does not; a failure never stops the processing.
C7_OneEventPerArgument ==
  argv # << >> =>
    /\ Labels(stdout) = SelectSeq(Processed, Opens)
    /\ Labels(stderr) = SelectSeq(Processed, Fails)
    /\ \A n \in DOMAIN stderr :
         stderr[n] = << ProgName, ": ", Label(stderr[n]), ": no such file or directory" >>
    /\ pc = "exit" => Processed = argv

\* the run has ended with a digest line printed after an error line
C7_Witness ==
  /\ pc = "exit"
  /\ Len(stdout) >= 1
  /\ Len(stderr) >= 1
  /\ Fails(argv[1])
  /\ Opens(argv[2])

\* the last data word as the claim places its bytes: the r leftover bytes,
\* then 0x80, then zeros
MarkedWord(bytes, r) ==
  LET n == Len(bytes)
      B(j) == IF j <= r THEN bytes[n - r + j] ELSE IF j = r + 1 THEN 128 ELSE 0
  IN  << B(1) * 256 + B(2), B(3) * 256 + B(4) >>

\* C8: with r = n mod 4 in {1, 2, 3}, the marker step replaces the last word
\* by the r leftover bytes in its most-significant positions, then 0x80, then
\* zeros, and keeps the word count; with r = 0 it appends 0x80000000.
C8_MarkerPlacement ==
  Padded =>
    LET r == count % 4
        q == count \div 4
    IN  /\ count = Len(Content)
        /\ IF r = 0
             THEN /\ Len(v) = q
                  /\ SubSeq(padded, 1, q) = v
                  /\ padded[q + 1] = << 32768, 0 >>
             ELSE /\ Len(v) = q + 1
                  /\ SubSeq(padded, 1, q) = SubSeq(v, 1, q)
                  /\ padded[q + 1] = MarkedWord(Content, r)
        /\ \A k \in (q + 2) .. (Len(padded) - 2) : padded[k] = << 0, 0 >>

\* an input of more than one word with two leftover bytes has been padded
C8_Witness == pc = "sha1" /\ it = 0 /\ count % 4 = 2 /\ count > 4

\* C9: one call of hashRound leaves the working variables equal to
\* (T, a, rotateLeft(b,30), c, d), T = rotateLeft(a,5) + f_r(b,c,d) + e + K_r
\* + schedule[r] mod 2^32, all from the values before the call.
C9_HashRound ==
  [][(pc = "hashRound" /\ round < 80) =>
       workingVars' = RefRound(workingVars, round, W[round + 1])]_vars

\* rounds of each of the four ranges have run on a second block
C9_Witness == pc = "hashRound" /\ round = 80 /\ it = 16

====
